---- MODULE Spec2Model ----
(***************************************************************************)
(* Model of the SDN screening functions of                                 *)
(* src/app/connector/typescript/functions.ts: getSdnData,                  *)
(* checkCustomerAgainstSdn and bulkCheckSdn, together with the remote      *)
(* provider they call through fetch.                                       *)
(*                                                                         *)
(* JavaScript values are encoded as follows.                               *)
(*   - a JSON value is a record [kind, items]: kind "array" with the       *)
(*     elements in items, kind "string" with the characters in items,      *)
(*     kind "object" (no length property);                                 *)
(*   - an optional value is <<>> (undefined) or <<v>>;                     *)
(*   - a message string is the sequence of its non-empty fragments, so    *)
(*     that a template literal is a concatenation and "" is <<>>;          *)
(*   - boolean | null is one of "true", "false", "null".                   *)
(***************************************************************************)
EXTENDS Integers, Sequences, FiniteSets, TLC

\* ---------------------------------------------------------------- bounds
MaxNames == 3
MaxMatches == 2

\* ------------------------------------------------------- program constants
DefaultLimit == 100

\* --------------------------------------------------------------- helpers
Undefined == <<>>
Some(v) == <<v>>
Str(s) == IF s = "" THEN <<>> ELSE <<s>>
\* JavaScript truthiness of an optional string / an optional number
TruthyStr(opt) == opt # Undefined /\ opt[1] # ""
TruthyNum(opt) == opt # Undefined /\ opt[1] # 0

NameSet == {"Jane Doe", "Known Sanctioned Entity"}

RECURSIVE SeqsUpTo(_, _)
SeqsUpTo(S, n) ==
    IF n = 0 THEN {<<>>}
    ELSE LET shorter == SeqsUpTo(S, n - 1)
         IN  shorter \cup {Append(s, x) : s \in {t \in shorter : Len(t) = n - 1}, x \in S}

\* ------------------------------------------------------------ JSON values
JsArray(items) == [kind |-> "array", items |-> items]
JsString(chars) == [kind |-> "string", items |-> chars]
JsObject == [kind |-> "object", items |-> <<>>]
JsNull == [kind |-> "null", items |-> <<>>]

IsArray(v) == v.kind = "array"

\* v.length: defined for arrays and strings, undefined for other values
Length(v) == IF v.kind \in {"array", "string"} THEN Some(Len(v.items)) ELSE Undefined

\* the SdnRecord with id i (lines 7-23); only its identity matters here
SdnRecord(i) == [id |-> i]

RecordArray(k) == JsArray([i \in 1..k |-> SdnRecord(i)])

\* ------------------------------------------------------------ the provider
\* bodies the provider can send with a 2xx status; "unparseable" is a body
\* response.json() rejects, "unread" the body of a response not read yet
ArrayBodies == {RecordArray(k) : k \in 0..MaxMatches}
NonArrayBodies == {JsObject, JsString(<<"d", "o", "w", "n">>)}
Unparseable == [kind |-> "unparseable", items |-> <<>>]
Unread == [kind |-> "unread", items |-> <<>>]
Bodies == ArrayBodies \cup NonArrayBodies \cup {Unparseable}

NoThrown == [isError |-> FALSE, message |-> <<>>]
JsError(msg) == [isError |-> TRUE, message |-> msg]
NonError == [isError |-> FALSE, message |-> <<"thrown value">>]

Resolve(ok, statusText, body) ==
    [settled |-> "resolve", ok |-> ok, statusText |-> statusText,
     body |-> body, thrown |-> NoThrown]
Reject(thrown) ==
    [settled |-> "reject", ok |-> FALSE, statusText |-> "",
     body |-> Unread, thrown |-> thrown]

\* fetch resolves when the status line and headers have arrived; the body is
\* read by response.json()
OkResponses == {Resolve(TRUE, "OK", Unread)}
FailResponses == {Resolve(FALSE, st, Unread) : st \in {"Not Found", ""}}
Rejections == {Reject(JsError(<<"fetch failed">>)), Reject(NonError)}
FetchOutcomes == OkResponses \cup FailResponses \cup Rejections

NoOutcome == [settled |-> "pending", ok |-> FALSE, statusText |-> "",
              body |-> Unread, thrown |-> NoThrown]

\* ------------------------------------------------------- error conversion
\* error instanceof Error ? error.message : 'Unknown error'
ErrorMessage(thrown) ==
    IF thrown.isError THEN thrown.message ELSE <<"Unknown error">>

\* what `await response.json()` does with a body: a value, or a SyntaxError
JsonThrows(body) == body.kind = "unparseable"
SyntaxError == JsError(<<"Unexpected token in JSON">>)

\* ------------------------------------------------------------- getSdnData
\* the URLSearchParams built by getSdnData, as the sequence of its pairs
GetSdnDataParams(name, country, limit) ==
    LET lim == IF limit = Undefined THEN Some(DefaultLimit) ELSE limit
    IN  (IF TruthyStr(name) THEN <<(<<"name", name[1]>>)>> ELSE <<>>)
        \o (IF TruthyStr(country) THEN <<(<<"country", country[1]>>)>> ELSE <<>>)
        \o (IF TruthyNum(lim) THEN <<(<<"limit", ToString(lim[1])>>)>> ELSE <<>>)

GetSdnDataThrow(statusText) ==
    JsError(<<"SDN API request failed: ">> \o Str(statusText))

GetSdnDataReturn(data) ==
    [success |-> TRUE,
     data |-> data,
     count |-> IF IsArray(data) THEN Len(data.items) ELSE 0,
     error |-> Undefined]

GetSdnDataCatch(thrown) ==
    [success |-> FALSE,
     error |-> Some(ErrorMessage(thrown)),
     data |-> JsArray(<<>>),
     count |-> 0]

\* ------------------------------------------------ checkCustomerAgainstSdn
\* variant: the default limit of getSdnData is sent too
CheckParamsWithLimit(customerName, fuzzyMatch) ==
    <<(<<"name", customerName>>)>>
    \o <<(<<"limit", ToString(DefaultLimit)>>)>>
    \o (IF fuzzyMatch THEN <<(<<"fuzzy", "true">>)>> ELSE <<>>)

CheckParams(customerName, fuzzyMatch) ==
    <<(<<"name", customerName>>)>>
    \o (IF fuzzyMatch THEN <<(<<"fuzzy", "true">>)>> ELSE <<>>)

\* variant: the message is the bare status text
CheckThrowStatusOnly(statusText) ==
    JsError(Str(statusText))

CheckThrow(statusText) ==
    JsError(<<"SDN check failed: ">> \o Str(statusText))

\* variant: only the first match is kept
CheckReturnTruncated(customerName, matches) ==
    LET hasMatch == IsArray(matches) /\ Len(matches.items) > 0
    IN  [customerName |-> customerName,
         isSDN |-> IF hasMatch THEN "true" ELSE "false",
         matchCount |-> IF IsArray(matches) THEN Len(matches.items) ELSE 0,
         matches |-> IF hasMatch
                     THEN JsArray(SubSeq(matches.items, 1, 1))
                     ELSE matches,
         riskLevel |-> IF hasMatch THEN "CRITICAL" ELSE "CLEAR",
         error |-> Undefined]

CheckReturn(customerName, matches) ==
    LET hasMatch == IsArray(matches) /\ Len(matches.items) > 0
    IN  [customerName |-> customerName,
         isSDN |-> IF hasMatch THEN "true" ELSE "false",
         matchCount |-> IF IsArray(matches) THEN Len(matches.items) ELSE 0,
         matches |-> matches,
         riskLevel |-> IF hasMatch THEN "CRITICAL" ELSE "CLEAR",
         error |-> Undefined]

\* variant: a failed lookup is reported as "no match"
CheckCatchNoMatch(customerName, thrown) ==
    [customerName |-> customerName,
     isSDN |-> "false",
     error |-> Some(ErrorMessage(thrown)),
     matches |-> JsArray(<<>>),
     matchCount |-> 0,
     riskLevel |-> "UNKNOWN"]

CheckCatch(customerName, thrown) ==
    [customerName |-> customerName,
     isSDN |-> "null",
     error |-> Some(ErrorMessage(thrown)),
     matches |-> JsArray(<<>>),
     matchCount |-> 0,
     riskLevel |-> "UNKNOWN"]

\* ------------------------------------------------------------ bulkCheckSdn
\* variant: the empty array is let through
BulkInvalidNonArrayOnly(customerNames) ==
    ~IsArray(customerNames)

BulkInvalid(customerNames) ==
    ~IsArray(customerNames) \/ Len(customerNames.items) = 0

BulkValidationFailure ==
    [success |-> FALSE,
     error |-> Some(<<"customerNames must be a non-empty array">>),
     results |-> <<>>,
     totalChecked |-> 0,
     flaggedCount |-> 0,
     summary |-> [critical |-> 0, clear |-> 0, unknown |-> 0]]

\* variant: success only when no lookup failed
BulkReturnAllOrNothing(results) ==
    LET IsFlagged(r) == r.isSDN = "true"
        IsClear(r) == r.riskLevel = "CLEAR"
        IsUnknown(r) == r.riskLevel = "UNKNOWN"
        flaggedCustomers == SelectSeq(results, IsFlagged)
    IN  [success |-> Len(SelectSeq(results, IsUnknown)) = 0,
         totalChecked |-> Len(results),
         flaggedCount |-> Len(flaggedCustomers),
         results |-> results,
         summary |-> [critical |-> Len(flaggedCustomers),
                      clear |-> Len(SelectSeq(results, IsClear)),
                      unknown |-> Len(SelectSeq(results, IsUnknown))],
         error |-> Undefined]

\* variant: clear counts every result that is not flagged
BulkReturnClearNotFlagged(results) ==
    LET IsFlagged(r) == r.isSDN = "true"
        NotFlagged(r) == r.isSDN # "true"
        IsUnknown(r) == r.riskLevel = "UNKNOWN"
        flaggedCustomers == SelectSeq(results, IsFlagged)
    IN  [success |-> TRUE,
         totalChecked |-> Len(results),
         flaggedCount |-> Len(flaggedCustomers),
         results |-> results,
         summary |-> [critical |-> Len(flaggedCustomers),
                      clear |-> Len(SelectSeq(results, NotFlagged)),
                      unknown |-> Len(SelectSeq(results, IsUnknown))],
         error |-> Undefined]

\* variant: flagged is every result whose isSDN is not false
BulkReturnFlaggedNotFalse(results) ==
    LET IsFlagged(r) == r.isSDN # "false"
        IsClear(r) == r.riskLevel = "CLEAR"
        IsUnknown(r) == r.riskLevel = "UNKNOWN"
        flaggedCustomers == SelectSeq(results, IsFlagged)
    IN  [success |-> TRUE,
         totalChecked |-> Len(results),
         flaggedCount |-> Len(flaggedCustomers),
         results |-> results,
         summary |-> [critical |-> Len(flaggedCustomers),
                      clear |-> Len(SelectSeq(results, IsClear)),
                      unknown |-> Len(SelectSeq(results, IsUnknown))],
         error |-> Undefined]

BulkReturn(results) ==
    LET IsFlagged(r) == r.isSDN = "true"
        IsClear(r) == r.riskLevel = "CLEAR"
        IsUnknown(r) == r.riskLevel = "UNKNOWN"
        flaggedCustomers == SelectSeq(results, IsFlagged)
    IN  [success |-> TRUE,
         totalChecked |-> Len(results),
         flaggedCount |-> Len(flaggedCustomers),
         results |-> results,
         summary |-> [critical |-> Len(flaggedCustomers),
                      clear |-> Len(SelectSeq(results, IsClear)),
                      unknown |-> Len(SelectSeq(results, IsUnknown))],
         error |-> Undefined]

BulkCatch(thrown) ==
    [success |-> FALSE,
     error |-> Some(ErrorMessage(thrown)),
     results |-> <<>>,
     totalChecked |-> 0,
     flaggedCount |-> 0,
     summary |-> [critical |-> 0, clear |-> 0, unknown |-> 0]]

\* ------------------------------------------------------------------ state
VARIABLES
    pc,      \* "idle", the function being executed, "returned" or "raised"
    call,    \* the current invocation: [fn, args]
    tasks,   \* one entry per pending or settled async call that fetches
    sent,    \* the provider requests issued by the current invocation
    ret,     \* <<>> while running, <<value>> once the invocation returned
    prev     \* history: an earlier getSdnData invocation and what it returned

vars == <<pc, call, tasks, sent, ret, prev>>

NoPrev == [args |-> <<>>, outcome |-> NoOutcome, result |-> <<>>]

NoCall == [fn |-> "none", args |-> <<>>]

\* arguments the callers pass
OptNames == {Undefined, Some(""), Some("Jane Doe")}
OptCountries == {Undefined, Some(""), Some("RU")}
OptLimits == {Undefined, Some(0), Some(5)}
CustomerNames == NameSet \cup {""}
OptFuzzy == {Undefined, Some(TRUE), Some(FALSE)}
BulkInputs == {JsNull} \cup {JsArray(s) : s \in SeqsUpTo(NameSet, MaxNames)}

Request(params) == [method |-> "GET", path |-> "/getsdn", params |-> params]

\* a promise of an async function: awaiting fetch, awaiting response.json(),
\* or settled with its return value
NoValue == <<>>
NewTask(fn, customerName) ==
    [fn |-> fn, customerName |-> customerName, stage |-> "fetch",
     outcome |-> NoOutcome, status |-> "pending", value |-> NoValue]
Fulfil(task, outcome, v) ==
    [task EXCEPT !.stage = "settled", !.outcome = outcome,
                 !.status = "fulfilled", !.value = Some(v)]
AwaitJson(task, outcome) ==
    [task EXCEPT !.stage = "json", !.outcome = outcome]
\* an async function whose body throws outside any try block rejects its
\* promise with the thrown value
RejectWith(task, outcome, thrown) ==
    [task EXCEPT !.stage = "settled", !.outcome = outcome,
                 !.status = "rejected", !.value = Some(thrown)]

Init ==
    /\ pc = "idle"
    /\ call = NoCall
    /\ tasks = <<>>
    /\ sent = <<>>
    /\ ret = Undefined
    /\ prev = NoPrev

\* the module keeps no variable between calls (every `const` is local to a
\* function): an invocation starts from the idle state
CanCall == pc = "idle"

\* getSdnData up to its first await: build the query and issue the request
CallGetSdnData(name, country, limit) ==
    /\ CanCall
    /\ pc' = "getSdnData"
    /\ call' = [fn |-> "getSdnData", args |-> <<name, country, limit>>]
    /\ sent' = <<Request(GetSdnDataParams(name, country, limit))>>
    /\ tasks' = <<NewTask("getSdnData", "")>>
    /\ ret' = Undefined
    /\ UNCHANGED prev

\* checkCustomerAgainstSdn up to its first await
CallCheckCustomerAgainstSdn(customerName, fuzzyMatch) ==
    LET fuzzy == IF fuzzyMatch = Undefined THEN TRUE ELSE fuzzyMatch[1]
    IN  /\ CanCall
        /\ pc' = "checkCustomerAgainstSdn"
        /\ call' = [fn |-> "checkCustomerAgainstSdn",
                    args |-> <<customerName, fuzzyMatch>>]
        /\ sent' = <<Request(CheckParams(customerName, fuzzy))>>
        /\ tasks' = <<NewTask("checkCustomerAgainstSdn", customerName)>>
        /\ ret' = Undefined
        /\ UNCHANGED prev

\* customerNames.map(name => checkCustomerAgainstSdn(name, true)): every
\* check runs to its fetch before map returns
\* variant: every distinct name is checked once
BulkSpawnDistinct(names) ==
    LET firsts == {i \in 1..Len(names) : \A j \in 1..(i - 1) : names[j] # names[i]}
        rank(i) == Cardinality({j \in firsts : j <= i})
    IN  [k \in 1..Cardinality(firsts) |->
            NewTask("checkCustomerAgainstSdn",
                    names[CHOOSE i \in firsts : rank(i) = k])]

BulkSpawn(names) ==
    [i \in 1..Len(names) |-> NewTask("checkCustomerAgainstSdn", names[i])]
\* variant: the batch asks for exact matching
BulkRequestsExact(names) ==
    [i \in 1..Len(names) |-> Request(CheckParams(names[i], FALSE))]

BulkRequests(names) ==
    [i \in 1..Len(names) |-> Request(CheckParams(names[i], TRUE))]

\* bulkCheckSdn up to `await Promise.all(checkPromises)`
CallBulkCheckSdn(customerNames) ==
    /\ CanCall
    /\ call' = [fn |-> "bulkCheckSdn", args |-> <<customerNames>>]
    /\ UNCHANGED prev
    /\ IF BulkInvalid(customerNames)
       THEN /\ pc' = "returned"
            /\ ret' = Some(BulkValidationFailure)
            /\ tasks' = <<>>
            /\ sent' = <<>>
       ELSE /\ pc' = "bulkCheckSdn"
            /\ ret' = Undefined
            /\ tasks' = BulkSpawn(customerNames.items)
            /\ sent' = BulkRequests(customerNames.items)

\* variant: getSdnData does not test response.ok
OnFetchNoStatusCheck(task, outcome) ==
    IF task.fn = "getSdnData"
    THEN IF outcome.settled = "reject"
         THEN Fulfil(task, outcome, GetSdnDataCatch(outcome.thrown))
         ELSE AwaitJson(task, outcome)
    ELSE IF outcome.settled = "reject"
         THEN Fulfil(task, outcome, CheckCatch(task.customerName, outcome.thrown))
         ELSE IF ~outcome.ok
         THEN Fulfil(task, outcome,
                     CheckCatch(task.customerName, CheckThrow(outcome.statusText)))
         ELSE AwaitJson(task, outcome)

\* variant: the status test of checkCustomerAgainstSdn is outside the try
OnFetchUncaught(task, outcome) ==
    IF task.fn = "getSdnData"
    THEN IF outcome.settled = "reject"
         THEN Fulfil(task, outcome, GetSdnDataCatch(outcome.thrown))
         ELSE IF ~outcome.ok
         THEN Fulfil(task, outcome,
                     GetSdnDataCatch(GetSdnDataThrow(outcome.statusText)))
         ELSE AwaitJson(task, outcome)
    ELSE IF outcome.settled = "reject"
         THEN Fulfil(task, outcome, CheckCatch(task.customerName, outcome.thrown))
         ELSE IF ~outcome.ok
         THEN RejectWith(task, outcome, CheckThrow(outcome.statusText))
         ELSE AwaitJson(task, outcome)

\* variant: checkCustomerAgainstSdn does not test response.ok
OnFetchCheckNoStatusTest(task, outcome) ==
    IF task.fn = "getSdnData"
    THEN IF outcome.settled = "reject"
         THEN Fulfil(task, outcome, GetSdnDataCatch(outcome.thrown))
         ELSE IF ~outcome.ok
         THEN Fulfil(task, outcome,
                     GetSdnDataCatch(GetSdnDataThrow(outcome.statusText)))
         ELSE AwaitJson(task, outcome)
    ELSE IF outcome.settled = "reject"
         THEN Fulfil(task, outcome, CheckCatch(task.customerName, outcome.thrown))
         ELSE AwaitJson(task, outcome)

\* the continuation of an async function after `await fetch(...)`
OnFetch(task, outcome) ==
    IF task.fn = "getSdnData"
    THEN IF outcome.settled = "reject"
         THEN Fulfil(task, outcome, GetSdnDataCatch(outcome.thrown))
         ELSE IF ~outcome.ok
         THEN Fulfil(task, outcome,
                     GetSdnDataCatch(GetSdnDataThrow(outcome.statusText)))
         ELSE AwaitJson(task, outcome)
    ELSE IF outcome.settled = "reject"
         THEN Fulfil(task, outcome, CheckCatch(task.customerName, outcome.thrown))
         ELSE IF ~outcome.ok
         THEN Fulfil(task, outcome,
                     CheckCatch(task.customerName, CheckThrow(outcome.statusText)))
         ELSE AwaitJson(task, outcome)

\* variant: getSdnData keeps a running total in a module-level counter, so
\* its count includes the count of the earlier lookup
OnJsonRunningTotal(task, body) ==
    LET read == [task.outcome EXCEPT !.body = body]
        earlier == IF prev = NoPrev THEN 0 ELSE prev.result[1].count
    IN  IF task.fn = "getSdnData"
        THEN IF JsonThrows(body)
             THEN Fulfil(task, read, GetSdnDataCatch(SyntaxError))
             ELSE Fulfil(task, read,
                         [GetSdnDataReturn(body) EXCEPT !.count = @ + earlier])
        ELSE IF JsonThrows(body)
             THEN Fulfil(task, read,
                         CheckCatch(task.customerName, SyntaxError))
             ELSE Fulfil(task, read,
                         CheckReturn(task.customerName, body))

\* the continuation of an async function after `await response.json()`, the
\* body read being `body`
OnJson(task, body) ==
    LET read == [task.outcome EXCEPT !.body = body]
    IN  IF task.fn = "getSdnData"
        THEN IF JsonThrows(body)
             THEN Fulfil(task, read, GetSdnDataCatch(SyntaxError))
             ELSE Fulfil(task, read, GetSdnDataReturn(body))
        ELSE IF JsonThrows(body)
             THEN Fulfil(task, read,
                         CheckCatch(task.customerName, SyntaxError))
             ELSE Fulfil(task, read,
                         CheckReturn(task.customerName, body))

\* variant: a check whose provider call failed is issued again
ResumeRetry(i, task) ==
    IF task.stage = "settled" /\ task.fn = "checkCustomerAgainstSdn"
           /\ (task.outcome.settled = "reject" \/ ~task.outcome.ok)
    THEN /\ tasks' = [tasks EXCEPT ![i] = NewTask(task.fn, task.customerName)]
         /\ sent' = Append(sent, sent[i])
         /\ UNCHANGED <<pc, call, ret, prev>>
    ELSE /\ tasks' = [tasks EXCEPT ![i] = task]
         /\ IF pc # "bulkCheckSdn" /\ task.stage = "settled"
            THEN /\ pc' = IF task.status = "rejected" THEN "raised" ELSE "returned"
                 /\ ret' = task.value
            ELSE UNCHANGED <<pc, ret>>
         /\ UNCHANGED <<call, sent, prev>>

\* a directly called function returns when its own promise is fulfilled, and
\* raises to its caller when it is rejected; inside a batch the settled
\* promise waits for Promise.all
Resume(i, task) ==
    /\ tasks' = [tasks EXCEPT ![i] = task]
    /\ IF pc # "bulkCheckSdn" /\ task.stage = "settled"
       THEN /\ pc' = IF task.status = "rejected" THEN "raised" ELSE "returned"
            /\ ret' = task.value
       ELSE UNCHANGED <<pc, ret>>
    /\ UNCHANGED <<call, sent, prev>>

\* the provider answers request i (or the request fails)
FetchSettles(i, outcome) ==
    /\ pc \in {"getSdnData", "checkCustomerAgainstSdn", "bulkCheckSdn"}
    /\ i \in 1..Len(tasks)
    /\ tasks[i].stage = "fetch"
    /\ Resume(i, OnFetch(tasks[i], outcome))

\* the body of response i has been read
JsonSettles(i, body) ==
    /\ pc \in {"getSdnData", "checkCustomerAgainstSdn", "bulkCheckSdn"}
    /\ i \in 1..Len(tasks)
    /\ tasks[i].stage = "json"
    /\ Resume(i, OnJson(tasks[i], body))

\* Promise.all(checkPromises): settles once every promise is fulfilled, with
\* the values in the order of the promises; rejects with the first rejection
PromiseAll(promises) ==
    IF \E i \in 1..Len(promises) : promises[i].status = "rejected"
    THEN [status |-> "rejected",
          value |-> LET i == CHOOSE k \in 1..Len(promises) :
                                 promises[k].status = "rejected"
                    IN  promises[i].value[1]]
    ELSE [status |-> "fulfilled",
          value |-> [i \in 1..Len(promises) |-> promises[i].value[1]]]

\* variant: the batch returns once any check has settled, with the results
\* available then
BulkJoinEarly ==
    /\ pc = "bulkCheckSdn"
    /\ \E i \in 1..Len(tasks) : tasks[i].stage = "settled"
    /\ LET IsSettled(t) == t.stage = "settled"
           all == PromiseAll(SelectSeq(tasks, IsSettled))
       IN  ret' = Some(IF all.status = "fulfilled"
                       THEN BulkReturn(all.value)
                       ELSE BulkCatch(all.value))
    /\ pc' = "returned"
    /\ UNCHANGED <<call, tasks, sent, prev>>

\* variant: the batch waits until no result is UNKNOWN
BulkJoinOnlyClean ==
    /\ pc = "bulkCheckSdn"
    /\ \A i \in 1..Len(tasks) :
           tasks[i].stage = "settled" /\ tasks[i].value[1].isSDN # "null"
    /\ LET all == PromiseAll(tasks)
       IN  ret' = Some(IF all.status = "fulfilled"
                       THEN BulkReturn(all.value)
                       ELSE BulkCatch(all.value))
    /\ pc' = "returned"
    /\ UNCHANGED <<call, tasks, sent, prev>>

\* bulkCheckSdn after `await Promise.all(checkPromises)`
BulkJoin ==
    /\ pc = "bulkCheckSdn"
    /\ \A i \in 1..Len(tasks) : tasks[i].stage = "settled"
    /\ LET all == PromiseAll(tasks)
       IN  ret' = Some(IF all.status = "fulfilled"
                       THEN BulkReturn(all.value)
                       ELSE BulkCatch(all.value))
    /\ pc' = "returned"
    /\ UNCHANGED <<call, tasks, sent, prev>>

Next ==
    \/ \E n \in OptNames, c \in OptCountries, l \in OptLimits :
           CallGetSdnData(n, c, l)
    \/ \E n \in CustomerNames, f \in OptFuzzy :
           CallCheckCustomerAgainstSdn(n, f)
    \/ \E names \in BulkInputs : CallBulkCheckSdn(names)
    \/ \E i \in 1..MaxNames, o \in FetchOutcomes : FetchSettles(i, o)
    \/ \E i \in 1..MaxNames, b \in Bodies : JsonSettles(i, b)
    \/ BulkJoin

Spec == Init /\ [][Next]_vars

\* ------------------------------------------------------ batch liveness
\* One batch invocation.  The fairness on FetchSettles and JsonSettles is
\* the hypothesis that every provider request issued eventually completes
\* (with a response or a failure, and its body read); the fairness on
\* BulkJoin is the event loop running the continuation of a settled
\* Promise.all.  The names are all the same: liveness does not depend on them.
LiveBulkInputs ==
    {JsNull} \cup {JsArray(s) : s \in SeqsUpTo({"Jane Doe"}, MaxNames)}

LiveNext ==
    \/ \E names \in LiveBulkInputs : CallBulkCheckSdn(names)
    \/ \E i \in 1..MaxNames, o \in FetchOutcomes : FetchSettles(i, o)
    \/ \E i \in 1..MaxNames, b \in Bodies : JsonSettles(i, b)
    \/ BulkJoin

LiveSpec ==
    /\ Init
    /\ [][LiveNext]_vars
    /\ \A i \in 1..MaxNames :
           /\ WF_vars(\E o \in FetchOutcomes : FetchSettles(i, o))
           /\ WF_vars(\E b \in Bodies : JsonSettles(i, b))
    /\ WF_vars(BulkJoin)

\* ------------------------------------------------ repeated invocations
\* the exported functions are invoked again and again by the connector: the
\* caller takes the result and the next invocation starts afresh.  The
\* history variable may remember the getSdnData invocation that just ended.
MaxRepeatNames == 1
RepeatBulkInputs ==
    {JsNull} \cup {JsArray(s) : s \in SeqsUpTo(NameSet, MaxRepeatNames)}

Discard(remember) ==
    /\ pc = "returned"
    /\ pc' = "idle"
    /\ call' = NoCall
    /\ tasks' = <<>>
    /\ sent' = <<>>
    /\ ret' = Undefined
    /\ prev' = IF remember /\ call.fn = "getSdnData"
               THEN [args |-> call.args, outcome |-> tasks[1].outcome,
                     result |-> ret]
               ELSE prev

RepeatNext ==
    \/ \E n \in OptNames, c \in OptCountries, l \in OptLimits :
           CallGetSdnData(n, c, l)
    \/ \E n \in CustomerNames, f \in OptFuzzy :
           CallCheckCustomerAgainstSdn(n, f)
    \/ \E names \in RepeatBulkInputs : CallBulkCheckSdn(names)
    \/ \E i \in 1..MaxRepeatNames, o \in FetchOutcomes : FetchSettles(i, o)
    \/ \E i \in 1..MaxRepeatNames, b \in Bodies : JsonSettles(i, b)
    \/ BulkJoin
    \/ \E remember \in BOOLEAN : Discard(remember)

RepeatSpec == Init /\ [][RepeatNext]_vars

\* ================================================================ claims
Returned(fn) == pc = "returned" /\ call.fn = fn
Result == ret[1]
BulkInput == call.args[1]
\* a batch whose input validation passed has returned
BulkDone == Returned("bulkCheckSdn") /\ ~BulkInvalid(BulkInput)

\* how the provider answered a request
ArrayAnswer(o) == o.settled = "resolve" /\ o.ok /\ IsArray(o.body)
NonArrayAnswer(o) ==
    o.settled = "resolve" /\ o.ok
        /\ o.body.kind \notin {"array", "unparseable", "unread"}
CallFailed(o) == o.settled = "reject" \/ (o.settled = "resolve" /\ ~o.ok)
LookupFailed(o) ==
    CallFailed(o) \/ (o.settled = "resolve" /\ o.ok /\ JsonThrows(o.body))

SettledChecks ==
    {i \in 1..Len(tasks) : tasks[i].fn = "checkCustomerAgainstSdn"
                           /\ tasks[i].stage = "settled"}

\* the name the caller passed for check i
NameGiven(i) ==
    IF call.fn = "bulkCheckSdn" THEN BulkInput.items[i] ELSE call.args[1]

Count(results, Test(_)) == Cardinality({i \in 1..Len(results) : Test(results[i])})

\* C1: a validated batch of n names returns totalChecked = n, n results, and
\* results[i].customerName = names[i] for every i, whatever the order in
\* which the provider requests complete.
C1_OrderPreserved ==
    BulkDone =>
        LET names == BulkInput.items
        IN  /\ Result.totalChecked = Len(names)
            /\ Len(Result.results) = Len(names)
            /\ \A i \in 1..Len(names) : Result.results[i].customerName = names[i]

\* a three-name batch with a duplicated name has returned, and its three
\* lookups ended differently
C1_Witness ==
    /\ BulkDone
    /\ Len(BulkInput.items) = 3
    /\ BulkInput.items[1] = BulkInput.items[3]
    /\ BulkInput.items[1] # BulkInput.items[2]
    /\ Result.results[1].riskLevel = "CRITICAL"
    /\ Result.results[2].riskLevel = "UNKNOWN"
    /\ Result.results[3].riskLevel = "CLEAR"

\* what checkCustomerAgainstSdn returns for one name when the provider
\* answers its request with o (status line, and body when it is read)
CheckAlone(customerName, o) ==
    LET afterFetch == OnFetch(NewTask("checkCustomerAgainstSdn", customerName),
                              [o EXCEPT !.body = Unread])
    IN  IF afterFetch.stage = "settled"
        THEN afterFetch.value[1]
        ELSE OnJson(afterFetch, o.body).value[1]

\* C2: a validated batch returns success = true however many lookups failed;
\* a failed lookup i gives results[i] isSDN null / UNKNOWN, and every
\* results[j] is what the check of names[j] alone gives for the provider's
\* answer to request j, so it does not depend on the other lookups.
C2_PartialFailureTolerated ==
    BulkDone =>
        /\ Result.success = TRUE
        /\ Len(Result.results) = Len(tasks)
        /\ \A j \in 1..Len(tasks) :
               /\ LookupFailed(tasks[j].outcome) =>
                      /\ Result.results[j].isSDN = "null"
                      /\ Result.results[j].riskLevel = "UNKNOWN"
               /\ Result.results[j] = CheckAlone(BulkInput.items[j], tasks[j].outcome)

\* a batch where the middle lookup failed and the others matched / cleared
C2_Witness ==
    /\ BulkDone
    /\ Len(tasks) = 3
    /\ ArrayAnswer(tasks[1].outcome) /\ Len(tasks[1].outcome.body.items) = 1
    /\ CallFailed(tasks[2].outcome)
    /\ ArrayAnswer(tasks[3].outcome) /\ Len(tasks[3].outcome.body.items) = 0
    /\ Result.results[1].isSDN = "true"
    /\ Result.results[3].isSDN = "false"

\* C3: in every successful batch result critical + clear + unknown equals
\* totalChecked, for every mix of provider outcomes.
C3_SummaryAddsUp ==
    (Returned("bulkCheckSdn") /\ Result.success) =>
        Result.summary.critical + Result.summary.clear + Result.summary.unknown
            = Result.totalChecked

\* a batch that saw an array, a non-array body and a failed request
C3_Witness ==
    /\ BulkDone
    /\ Result.success
    /\ \E i, j, k \in 1..Len(tasks) :
           /\ ArrayAnswer(tasks[i].outcome) /\ Len(tasks[i].outcome.body.items) > 0
           /\ NonArrayAnswer(tasks[j].outcome)
           /\ CallFailed(tasks[k].outcome)
    /\ Result.summary.critical > 0
    /\ Result.summary.clear > 0
    /\ Result.summary.unknown > 0

\* C4: in every result of bulkCheckSdn flaggedCount is the number of results
\* with isSDN = true, summary.critical equals flaggedCount, summary.clear is
\* the number with riskLevel CLEAR and summary.unknown the number with
\* riskLevel UNKNOWN.
C4_Aggregation ==
    Returned("bulkCheckSdn") =>
        LET IsTrue(r) == r.isSDN = "true"
            Clear(r) == r.riskLevel = "CLEAR"
            Unknown(r) == r.riskLevel = "UNKNOWN"
        IN  /\ Result.flaggedCount = Count(Result.results, IsTrue)
            /\ Result.summary.critical = Result.flaggedCount
            /\ Result.summary.clear = Count(Result.results, Clear)
            /\ Result.summary.unknown = Count(Result.results, Unknown)

\* three names of which only the middle one has one provider match
C4_Witness ==
    /\ BulkDone
    /\ Len(tasks) = 3
    /\ \A i \in {1, 3} : ArrayAnswer(tasks[i].outcome)
                         /\ Len(tasks[i].outcome.body.items) = 0
    /\ ArrayAnswer(tasks[2].outcome) /\ Len(tasks[2].outcome.body.items) = 1
    /\ Result.flaggedCount = 1
    /\ Result.summary = [critical |-> 1, clear |-> 2, unknown |-> 0]
    /\ Result.results[2].riskLevel = "CRITICAL"

\* C5: bulkCheckSdn called with an empty sequence or a non-sequence returns
\* success = false, the error "customerNames must be a non-empty array",
\* empty results and zero counts, and issues no provider request.
C5_InvalidInputRejected ==
    (call.fn = "bulkCheckSdn"
        /\ (~IsArray(BulkInput) \/ Len(BulkInput.items) = 0)) =>
        /\ pc = "returned"
        /\ sent = <<>>
        /\ tasks = <<>>
        /\ Result.success = FALSE
        /\ Result.error = Some(<<"customerNames must be a non-empty array">>)
        /\ Result.results = <<>>
        /\ Result.totalChecked = 0
        /\ Result.flaggedCount = 0
        /\ Result.summary = [critical |-> 0, clear |-> 0, unknown |-> 0]

C5_Witness ==
    /\ Returned("bulkCheckSdn")
    /\ BulkInput = JsArray(<<>>)
    /\ Result.success = FALSE
    /\ sent = <<>>

\* C6: when the provider answers 2xx with an array of length k,
\* checkCustomerAgainstSdn returns no error and: k = 0 gives isSDN false,
\* CLEAR, matchCount 0; k >= 1 gives isSDN true, CRITICAL, matchCount k and
\* matches is the returned array, of length k.
C6_ArrayClassified ==
    \A i \in SettledChecks :
        ArrayAnswer(tasks[i].outcome) =>
            LET r == tasks[i].value[1]
                k == Len(tasks[i].outcome.body.items)
            IN  /\ r.error = Undefined
                /\ r.matchCount = k
                /\ r.matches = tasks[i].outcome.body
                /\ Length(r.matches) = Some(k)
                /\ k = 0 => r.isSDN = "false" /\ r.riskLevel = "CLEAR"
                /\ k >= 1 => r.isSDN = "true" /\ r.riskLevel = "CRITICAL"

\* a direct check returned for a provider array of the greatest length
C6_Witness ==
    /\ Returned("checkCustomerAgainstSdn")
    /\ ArrayAnswer(tasks[1].outcome)
    /\ Len(tasks[1].outcome.body.items) = MaxMatches
    /\ Result.matchCount = MaxMatches
    /\ Result.isSDN = "true"

\* C7: when the provider call fails (non-2xx status, or the request raises),
\* checkCustomerAgainstSdn returns isSDN null, UNKNOWN, matchCount 0, empty
\* matches and a non-empty error message, and echoes customerName.
C7_FailureClassified ==
    \A i \in SettledChecks :
        CallFailed(tasks[i].outcome) =>
            LET r == tasks[i].value[1]
            IN  /\ r.isSDN = "null"
                /\ r.riskLevel = "UNKNOWN"
                /\ r.matchCount = 0
                /\ r.matches = JsArray(<<>>)
                /\ r.error # Undefined
                /\ r.error[1] # <<>>
                /\ r.customerName = NameGiven(i)

\* a direct check returned after a non-2xx answer with an empty status text
C7_Witness ==
    /\ Returned("checkCustomerAgainstSdn")
    /\ tasks[1].outcome.settled = "resolve"
    /\ ~tasks[1].outcome.ok
    /\ tasks[1].outcome.statusText = ""
    /\ Result.isSDN = "null"

\* C8: every CustomerCheckResponse has isSDN null exactly when an error is
\* present, a riskLevel among CRITICAL, CLEAR, UNKNOWN, and riskLevel is
\* determined by isSDN (true/CRITICAL, false/CLEAR, null/UNKNOWN).
C8_RiskDeterminedByFlag ==
    \A i \in SettledChecks :
        LET r == tasks[i].value[1]
        IN  /\ (r.isSDN = "null") <=> (r.error # Undefined)
            /\ r.riskLevel \in {"CRITICAL", "CLEAR", "UNKNOWN"}
            /\ (r.isSDN = "true") <=> (r.riskLevel = "CRITICAL")
            /\ (r.isSDN = "false") <=> (r.riskLevel = "CLEAR")
            /\ (r.isSDN = "null") <=> (r.riskLevel = "UNKNOWN")

\* a batch holding a result of each of the three kinds, one of them from a
\* 2xx body that is not an array
C8_Witness ==
    /\ BulkDone
    /\ \E i, j, k \in SettledChecks :
           /\ tasks[i].value[1].isSDN = "true"
           /\ tasks[j].value[1].isSDN = "false" /\ NonArrayAnswer(tasks[j].outcome)
           /\ tasks[k].value[1].isSDN = "null"

\* C9: every SdnDataResponse of getSdnData has count = length(data) when
\* success is true, and data empty with count 0 when success is false, also
\* for a 2xx response whose body is not an array.
C9_CountIsLength ==
    Returned("getSdnData") =>
        /\ Result.success => Length(Result.data) = Some(Result.count)
        /\ ~Result.success => Result.data = JsArray(<<>>) /\ Result.count = 0

\* C10: when the provider answers getSdnData 2xx with a body that is not a
\* sequence, the result has count 0 and data an empty sequence.
C10_NonArrayNormalised ==
    (Returned("getSdnData") /\ NonArrayAnswer(tasks[1].outcome)) =>
        /\ Result.count = 0
        /\ Result.data = JsArray(<<>>)

\* C11: when the provider answers getSdnData with a non-2xx status, or the
\* request raises, the result is success false with an error, data [] and
\* count 0, the error of a non-2xx answer being built from its status text;
\* success is true only for a 2xx response.
C11_TransportFailureReported ==
    Returned("getSdnData") =>
        LET o == tasks[1].outcome
        IN  /\ CallFailed(o) =>
                   /\ Result.success = FALSE
                   /\ Result.error # Undefined
                   /\ Result.data = JsArray(<<>>)
                   /\ Result.count = 0
            /\ (o.settled = "resolve" /\ ~o.ok) =>
                   Result.error =
                       Some(<<"SDN API request failed: ">> \o Str(o.statusText))
            /\ o.settled = "reject" =>
                   Result.error = Some(IF o.thrown.isError
                                       THEN o.thrown.message
                                       ELSE <<"Unknown error">>)
            /\ Result.success = TRUE => (o.settled = "resolve" /\ o.ok)

\* getSdnData returned after a 404
C11_Witness ==
    /\ Returned("getSdnData")
    /\ tasks[1].outcome.settled = "resolve"
    /\ ~tasks[1].outcome.ok
    /\ tasks[1].outcome.statusText = "Not Found"
    /\ Result.success = FALSE
    /\ call.args[1] = Some("Jane Doe")

\* C12: a 2xx answer with a malformed payload (a body that is not an array,
\* or that does not parse) is never surfaced as an error by
\* checkCustomerAgainstSdn: the result has no error, isSDN false, CLEAR,
\* matchCount 0 and an empty matches sequence.
C12_MalformedNormalised ==
    \A i \in SettledChecks :
        (NonArrayAnswer(tasks[i].outcome)
            \/ (tasks[i].outcome.settled = "resolve" /\ tasks[i].outcome.ok
                    /\ JsonThrows(tasks[i].outcome.body))) =>
            LET r == tasks[i].value[1]
            IN  /\ r.error = Undefined
                /\ r.isSDN = "false"
                /\ r.riskLevel = "CLEAR"
                /\ r.matchCount = 0
                /\ r.matches = JsArray(<<>>)

\* C13: no invocation of the three functions ends by raising: no promise of
\* getSdnData or checkCustomerAgainstSdn is rejected, and an invocation that
\* ended has returned its structured result.
C13_NeverRaises ==
    /\ pc # "raised"
    /\ \A i \in 1..Len(tasks) :
           /\ tasks[i].status # "rejected"
           /\ tasks[i].stage = "settled" =>
                  /\ tasks[i].status = "fulfilled"
                  /\ tasks[i].value # NoValue
                  /\ IF tasks[i].fn = "getSdnData"
                     THEN tasks[i].value[1].success \in BOOLEAN
                     ELSE tasks[i].value[1].riskLevel
                              \in {"CRITICAL", "CLEAR", "UNKNOWN"}
    /\ pc = "returned" =>
           /\ ret # Undefined
           /\ call.fn = "bulkCheckSdn" => Result.success \in BOOLEAN
    /\ pc \in {"getSdnData", "checkCustomerAgainstSdn"} =>
           tasks[1].stage # "settled"

\* a batch returned although one request raised, one was answered non-2xx
\* and one body did not parse
C13_Witness ==
    /\ BulkDone
    /\ \E i, j, k \in 1..Len(tasks) :
           /\ tasks[i].outcome.settled = "reject"
           /\ tasks[j].outcome.settled = "resolve" /\ ~tasks[j].outcome.ok
           /\ tasks[k].outcome.settled = "resolve" /\ tasks[k].outcome.ok
                  /\ JsonThrows(tasks[k].outcome.body)
    /\ Result.success = TRUE

\* the parameters of a request that carry key
ParamsOf(request, key) ==
    {k \in 1..Len(request.params) : request.params[k][1] = key}
HasParam(request, key) == ParamsOf(request, key) # {}
ParamValue(request, key) ==
    request.params[CHOOSE k \in ParamsOf(request, key) : TRUE][2]
ValidBatch == call.fn = "bulkCheckSdn" /\ ~BulkInvalid(BulkInput)

\* C14: an invocation of getSdnData or of checkCustomerAgainstSdn issues
\* exactly one provider request, whether it succeeds or fails; a validated
\* batch of n names issues exactly n, one per input position, and a failed
\* request is never issued again.
C14_OneRequestPerLookup ==
    /\ call.fn \in {"getSdnData", "checkCustomerAgainstSdn"} => Len(sent) = 1
    /\ ValidBatch =>
           /\ Len(sent) = Len(BulkInput.items)
           /\ \A i \in 1..Len(BulkInput.items) :
                  /\ Cardinality(ParamsOf(sent[i], "name")) = 1
                  /\ ParamValue(sent[i], "name") = BulkInput.items[i]

\* a three-name batch returned after two failed provider calls, with three
\* requests issued
C14_Witness ==
    /\ BulkDone
    /\ Len(BulkInput.items) = 3
    /\ Len(sent) = 3
    /\ CallFailed(tasks[1].outcome)
    /\ CallFailed(tasks[3].outcome)
    /\ ArrayAnswer(tasks[2].outcome)

\* C15: the request of getSdnData has a name, country and limit parameter
\* exactly when that field of the query is non-empty, never an empty
\* parameter, and limit is 100 when the caller gives none.
C15_OnlyNonEmptyFields ==
    call.fn = "getSdnData" =>
        LET name == call.args[1]
            country == call.args[2]
            limit == call.args[3]
            request == sent[1]
        IN  /\ HasParam(request, "name") <=> (name # Undefined /\ name[1] # "")
            /\ HasParam(request, "country")
                   <=> (country # Undefined /\ country[1] # "")
            /\ HasParam(request, "limit")
            /\ ParamValue(request, "limit")
                   = ToString(IF limit = Undefined THEN 100 ELSE limit[1])
            /\ \A k \in 1..Len(request.params) : request.params[k][2] # ""

\* the matching-mode hint of a check request
FuzzyHint(fuzzyMatch) ==
    IF fuzzyMatch # Some(FALSE) THEN <<(<<"fuzzy", "true">>)>> ELSE <<>>

C18_BatchAlwaysFuzzy ==
    /\ ValidBatch =>
           /\ Len(tasks) = Len(BulkInput.items)
           /\ Len(sent) = Len(BulkInput.items)
           /\ \A i \in 1..Len(BulkInput.items) :
                  /\ tasks[i].fn = "checkCustomerAgainstSdn"
                  /\ tasks[i].customerName = BulkInput.items[i]
                  /\ HasParam(sent[i], "fuzzy")
                  /\ ParamValue(sent[i], "fuzzy") = "true"
    /\ call.fn = "checkCustomerAgainstSdn" =>
           (HasParam(sent[1], "fuzzy") <=> call.args[2] # Some(FALSE))

\* a batch of MaxNames names is in flight, each request with the hint
C18_Witness ==
    /\ ValidBatch
    /\ pc = "bulkCheckSdn"
    /\ Len(sent) = MaxNames
    /\ \A i \in 1..Len(sent) : HasParam(sent[i], "fuzzy")

\* C19: the step that starts a validated batch issues all n requests, none
\* answered yet, and the batch has not returned while any of its n checks is
\* outstanding.
C19_FanOutFanIn ==
    /\ [][(pc = "idle" /\ pc' = "bulkCheckSdn") =>
              /\ Len(sent') = Len(call'.args[1].items)
              /\ Len(tasks') = Len(call'.args[1].items)
              /\ \A i \in 1..Len(tasks') : tasks'[i].stage = "fetch"]_vars
    /\ [](ValidBatch =>
              /\ Len(tasks) = Len(BulkInput.items)
              /\ (\E i \in 1..Len(tasks) : tasks[i].stage # "settled") =>
                     (pc = "bulkCheckSdn" /\ ret = Undefined)
              /\ pc = "returned" =>
                     \A i \in 1..Len(tasks) : tasks[i].stage = "settled")

\* MaxNames requests are in flight at once, one check settled and the batch
\* still waiting
C19_Witness ==
    /\ ValidBatch
    /\ pc = "bulkCheckSdn"
    /\ Len(tasks) = MaxNames
    /\ tasks[MaxNames].stage = "settled"
    /\ \A i \in 1..(MaxNames - 1) : tasks[i].stage = "fetch"

\* C16: two invocations of getSdnData with the same query that receive the
\* same provider response return the same SdnDataResponse, whatever was
\* invoked before or between them.
C16_RepeatedLookupSameResult ==
    (Returned("getSdnData") /\ prev # NoPrev
        /\ prev.args = call.args
        /\ prev.outcome = tasks[1].outcome) =>
        ret = prev.result

\* a lookup that found records has been repeated with the same query and
\* has received the same provider response
C16_Witness ==
    /\ Returned("getSdnData")
    /\ prev # NoPrev
    /\ prev.args = call.args
    /\ prev.outcome = tasks[1].outcome
    /\ ArrayAnswer(tasks[1].outcome)
    /\ Result.count = MaxMatches
    /\ call.args[1] = Some("Jane Doe")

\* C20: when every provider request of a validated batch eventually
\* completes, bulkCheckSdn eventually returns; it returns only after every
\* one of its n requests completed.
C20_BatchEventuallyReturns ==
    /\ (pc = "bulkCheckSdn") ~> (pc = "returned")
    /\ [](BulkDone => \A i \in 1..Len(tasks) : tasks[i].stage = "settled")

\* a batch of MaxNames names returned after every request failed
C20_Witness ==
    /\ BulkDone
    /\ Len(tasks) = MaxNames
    /\ \A i \in 1..Len(tasks) : CallFailed(tasks[i].outcome)
    /\ Result.summary.unknown = MaxNames

\* C21: no result of checkCustomerAgainstSdn, alone or inside a batch, is
\* CLEAR when the provider call for that name failed (non-2xx, or the request
\* raised), and none is CRITICAL unless the provider returned at least one
\* record for that name.
C21_ScreeningSafety ==
    /\ \A i \in SettledChecks :
           LET r == tasks[i].value[1]
               o == tasks[i].outcome
           IN  /\ CallFailed(o) => r.riskLevel # "CLEAR"
               /\ r.riskLevel = "CRITICAL" =>
                      (ArrayAnswer(o) /\ Len(o.body.items) >= 1)
    /\ BulkDone =>
           \A i \in 1..Len(Result.results) :
               LET r == Result.results[i]
                   o == tasks[i].outcome
               IN  /\ CallFailed(o) => r.riskLevel # "CLEAR"
                   /\ r.riskLevel = "CRITICAL" =>
                          (ArrayAnswer(o) /\ Len(o.body.items) >= 1)

\* a batch returned in which the first call was answered non-2xx, the second
\* raised and the third returned a record
C21_Witness ==
    /\ BulkDone
    /\ Len(tasks) = 3
    /\ tasks[1].outcome.settled = "resolve" /\ ~tasks[1].outcome.ok
    /\ tasks[2].outcome.settled = "reject"
    /\ ArrayAnswer(tasks[3].outcome) /\ Len(tasks[3].outcome.body.items) = 1
    /\ Result.results[1].riskLevel = "UNKNOWN"
    /\ Result.results[2].riskLevel = "UNKNOWN"
    /\ Result.results[3].riskLevel = "CRITICAL"

====
